---- MODULE Spec2Model ----
(***************************************************************************)
(* Model of server/nlp_microservice.py: the module-level model loading     *)
(* (start-up), the sixteen route handlers, the temporary files the         *)
(* /transcribe, /table and /audio-embed handlers stage, and the HTTP       *)
(* response the framework builds from a handler's return value.            *)
(*                                                                         *)
(* Library calls are opaque: whether one raises is part of the request's   *)
(* input (field lib), so that a request's outcome is a function of its     *)
(* input, the capability handles and the file it reads.                    *)
(***************************************************************************)
EXTENDS Integers, Sequences, FiniteSets, TLC

\* Number of request slots: requests that may be in flight together.
MaxReq == 2
\* Longest list of entities the parser finds in one text.
MaxEnts == 2

ReqIds == 1..MaxReq
\* Names tempfile.NamedTemporaryFile can hand out. A handler stages at most one
\* file; a file left behind keeps its name taken.
Paths == 1..MaxReq

VARIABLES proc, loadStep, handle, req, files

vars == <<proc, loadStep, handle, req, files>>

----------------------------------------------------------------------------
\* Start-up: the module-level statements, in source order.

\* The module-level handles, in the order the module creates them.
LoadOrder ==
    << "ner_pipeline", "sentiment_pipeline", "summarizer", "paraphrase_pipeline",
       "intent_pipeline", "nlp_spacy", "kw_extractor", "embedder", "clip",
       "wav2vec2" >>

Capabilities == { LoadOrder[i] : i \in 1..Len(LoadOrder) }

\* Created by a bare statement: an exception propagates out of the import.
Unguarded ==
    { "ner_pipeline", "sentiment_pipeline", "summarizer", "paraphrase_pipeline",
      "intent_pipeline", "kw_extractor" }

\* Created inside try/except that sets the handle to None.
GuardedNone == { "embedder", "clip", "wav2vec2" }

Inp(lib, type, ents, hdr) == [lib |-> lib, type |-> type, ents |-> ents, hdr |-> hdr]

\* No value returned yet.
NoRet ==
    [kind |-> "none", fields |-> {}, msg |-> "", code |-> 0,
     text |-> "", method |-> "", entities |-> <<>>]

\* A slot with no request in it.
IdleReq ==
    [st |-> "idle", route |-> "", in |-> Inp("", "", <<>>, <<>>),
     tmp |-> 0, ret |-> NoRet, calls |-> <<>>]

Init ==
    /\ proc = "starting"
    /\ loadStep = 1
    /\ handle = [c \in Capabilities |-> "unset"]
    /\ req = [r \in ReqIds |-> IdleReq]
    /\ files = [p \in Paths |-> 0]

\* What the import does after statement loadStep has run.
Advance ==
    /\ loadStep' = loadStep + 1
    /\ proc' = IF loadStep = Len(LoadOrder) THEN "serving" ELSE "starting"

\* pipeline(...) / yake.KeywordExtractor(...): no handler around the statement.
LoadUnguarded ==
    /\ proc = "starting"
    /\ LoadOrder[loadStep] \in Unguarded
    /\ \E ok \in BOOLEAN :
         IF ok
         THEN /\ handle' = [handle EXCEPT ![LoadOrder[loadStep]] = "loaded"]
              /\ Advance
         ELSE /\ handle' = [handle EXCEPT ![LoadOrder[loadStep]] = "failed"]
              /\ proc' = "crashed"
              /\ UNCHANGED loadStep
    /\ UNCHANGED <<req, files>>

\* try: spacy.load("en_core_web_trf") except: spacy.blank("en")
LoadSpacy ==
    /\ proc = "starting"
    /\ LoadOrder[loadStep] = "nlp_spacy"
    /\ \E ok \in BOOLEAN :
         handle' = [handle EXCEPT !["nlp_spacy"] = IF ok THEN "loaded" ELSE "blank"]
    /\ Advance
    /\ UNCHANGED <<req, files>>

\* try: X = load() except: log; X = None   (embedder, CLIP, Wav2Vec2)
LoadGuarded ==
    /\ proc = "starting"
    /\ LoadOrder[loadStep] \in GuardedNone
    /\ \E ok \in BOOLEAN :
         handle' = [handle EXCEPT ![LoadOrder[loadStep]] = IF ok THEN "loaded" ELSE "none"]
    /\ Advance
    /\ UNCHANGED <<req, files>>

----------------------------------------------------------------------------
\* Handler return values and the response built from them.

\* return {...}: a dict with the given keys.
Success(fields) == [NoRet EXCEPT !.kind = "dict", !.fields = fields]

\* return {"error": str(e)}, 500: a 2-tuple of a dict and an int.
Failure(msg) ==
    [NoRet EXCEPT !.kind = "tuple", !.fields = {"error"}, !.msg = msg, !.code = 500]

\* An exception that leaves the handler (no except clause catches it).
Raised(msg) == [NoRet EXCEPT !.kind = "raised", !.msg = msg]

Out(ret, calls) == [ret |-> ret, calls |-> calls]

\* The route decorators give no status_code and the handlers return plain
\* values, so the framework answers 200 and serialises the return value: a
\* dict as a JSON object, a tuple as a JSON array of its elements.
HttpResponse(ret) ==
    [status |-> IF ret.kind = "raised" THEN 500 ELSE 200,
     body   |-> CASE ret.kind = "dict"  -> "object"
                  [] ret.kind = "tuple" -> "array"
                  [] OTHER              -> "text",
     fields |-> IF ret.kind = "dict" THEN ret.fields ELSE {}]

----------------------------------------------------------------------------
\* The text handlers: each is try: <library call>; return {...}
\*                            except Exception as e: return {"error": str(e)}, 500

TextLib == {"ok", "raise"}
Types == {"extractive", "none"}

ner_out(inp) ==
    Out(IF inp.lib = "raise" THEN Failure("ner_pipeline raised")
        ELSE Success({"entities"}),
        <<"ner_pipeline">>)

\* return result[0]: the classifier's own dict.
sentiment_out(inp) ==
    Out(IF inp.lib = "raise" THEN Failure("sentiment_pipeline raised")
        ELSE Success({"label", "score"}),
        <<"sentiment_pipeline">>)

summarize_out(inp) ==
    IF inp.type = "extractive"
    THEN Out(IF inp.lib = "raise" THEN Failure("kw_extractor raised")
             ELSE Success({"summary"}),
             <<"kw_extractor">>)
    ELSE Out(IF inp.lib = "raise" THEN Failure("summarizer raised")
             ELSE Success({"summary"}),
             <<"summarizer">>)

intent_out(inp) ==
    Out(IF inp.lib = "raise" THEN Failure("intent_pipeline raised")
        ELSE Success({"intent", "confidence"}),
        <<"intent_pipeline">>)

keywords_out(inp) ==
    Out(IF inp.lib = "raise" THEN Failure("kw_extractor raised")
        ELSE Success({"keywords"}),
        <<"kw_extractor">>)

\* getattr(doc._, "coref_resolved", req.text): the blank parser has no such
\* attribute and the text itself is returned.
coref_out(inp) ==
    Out(IF inp.lib = "raise" THEN Failure("nlp_spacy raised")
        ELSE [Success({"resolved_text", "clusters"}) EXCEPT
                 !.text = IF handle["nlp_spacy"] = "blank" THEN "input" ELSE "resolved"],
        <<"nlp_spacy">>)

paraphrase_out(inp) ==
    Out(IF inp.lib = "raise" THEN Failure("paraphrase_pipeline raised")
        ELSE Success({"paraphrased"}),
        <<"paraphrase_pipeline">>)

\* Knowledge-base ids as strings of characters; <<>> is ent.kb_id_ == ''.
KbIds == { <<>>, <<"Q", "4", "2">>, <<"7">> }

Digits == {"0", "1", "2", "3", "4", "5", "6", "7", "8", "9"}

DigitVal(c) ==
    CASE c = "0" -> 0 [] c = "1" -> 1 [] c = "2" -> 2 [] c = "3" -> 3 [] c = "4" -> 4
      [] c = "5" -> 5 [] c = "6" -> 6 [] c = "7" -> 7 [] c = "8" -> 8 [] c = "9" -> 9

RECURSIVE DecimalVal(_)
DecimalVal(s) ==
    IF s = <<>> THEN 0
    ELSE 10 * DecimalVal(SubSeq(s, 1, Len(s) - 1)) + DigitVal(s[Len(s)])

\* float(s) on a string: a value for a decimal numeral, ValueError otherwise.
ParseFloat(s) ==
    IF s # <<>> /\ \A i \in 1..Len(s) : s[i] \in Digits
    THEN [ok |-> TRUE, val |-> DecimalVal(s)]
    ELSE [ok |-> FALSE, val |-> 0]

\* doc.ents: the blank pipeline has no entity recogniser.
DocEnts(inp) == IF handle["nlp_spacy"] = "blank" THEN <<>> ELSE inp.ents

\* "confidence": float(ent.kb_id_) if entity_id else 1.0
Confidence(kb) == IF kb # <<>> THEN ParseFloat(kb) ELSE [ok |-> TRUE, val |-> 1]

\* entity_linking_out with the conversion outside the try block.
entity_linking_out_Escapes(inp) ==
    LET ents == DocEnts(inp) IN
    Out(IF inp.lib = "raise" THEN Failure("nlp_spacy raised")
        ELSE IF \E i \in 1..Len(ents) : ~Confidence(ents[i]).ok
        THEN Raised("could not convert string to float")
        ELSE [Success({"entities"}) EXCEPT
                 !.entities = [i \in 1..Len(ents) |->
                                 [mention |-> i, entity_id |-> ents[i],
                                  confidence |-> Confidence(ents[i]).val]]],
        <<"nlp_spacy">>)

entity_linking_out(inp) ==
    LET ents == DocEnts(inp) IN
    Out(IF inp.lib = "raise" THEN Failure("nlp_spacy raised")
        ELSE IF \E i \in 1..Len(ents) : ~Confidence(ents[i]).ok
        THEN Failure("could not convert string to float")
        ELSE [Success({"entities"}) EXCEPT
                 !.entities = [i \in 1..Len(ents) |->
                                 [mention |-> i, entity_id |-> ents[i],
                                  confidence |-> Confidence(ents[i]).val]]],
        <<"nlp_spacy">>)

\* if embedder is None: return {"error": "Embedding model not loaded"}, 500
embed_out(inp) ==
    IF handle["embedder"] = "none"
    THEN Out(Failure("Embedding model not loaded"), <<>>)
    ELSE Out(IF inp.lib = "raise" THEN Failure("embedder raised")
             ELSE Success({"embeddings"}),
             <<"embedder">>)

extract_pdf_out(inp) ==
    Out(IF inp.lib = "raise" THEN Failure("pdfplumber raised")
        ELSE Success({"text", "metadata"}),
        <<"pdfplumber">>)

image_embed_out(inp) ==
    IF handle["clip"] = "none"
    THEN Out(Failure("CLIP model not loaded"), <<>>)
    ELSE Out(IF inp.lib = "raise" THEN Failure("clip raised")
             ELSE Success({"embedding"}),
             <<"clip">>)

\* What the image does to the calls made on it.
Images == {"notimage", "clean", "tessfail", "noreader", "bothfail"}

OpenRaises(img)     == img = "notimage"
TessRaises(img)     == img \in {"tessfail", "noreader", "bothfail"}
ReaderRaises(img)   == img = "noreader"
ReadtextRaises(img) == img = "bothfail"

\* OcrEngines with the fallback's "method = ..." assignment left out.
OcrEngines_Mislabel(img) ==
    IF ~TessRaises(img)
    THEN [raised |-> FALSE, text |-> "pytesseract", method |-> "pytesseract",
          calls |-> <<"pytesseract">>]
    ELSE IF ReaderRaises(img) \/ ReadtextRaises(img)
    THEN [raised |-> TRUE, text |-> "", method |-> "",
          calls |-> <<"pytesseract", "easyocr.Reader">>]
    ELSE [raised |-> FALSE, text |-> "easyocr", method |-> "pytesseract",
          calls |-> <<"pytesseract", "easyocr.Reader", "readtext">>]

\* The inner try: pytesseract first; except Exception: a new easyocr.Reader,
\* then readtext. [raised, text, method, calls] of the with-block.
OcrEngines(img) ==
    IF ~TessRaises(img)
    THEN [raised |-> FALSE, text |-> "pytesseract", method |-> "pytesseract",
          calls |-> <<"pytesseract">>]
    ELSE IF ReaderRaises(img)
    THEN [raised |-> TRUE, text |-> "", method |-> "",
          calls |-> <<"pytesseract", "easyocr.Reader">>]
    ELSE IF ReadtextRaises(img)
    THEN [raised |-> TRUE, text |-> "", method |-> "",
          calls |-> <<"pytesseract", "easyocr.Reader", "readtext">>]
    ELSE [raised |-> FALSE, text |-> "easyocr", method |-> "easyocr",
          calls |-> <<"pytesseract", "easyocr.Reader", "readtext">>]

ocr_image_out(inp) ==
    IF OpenRaises(inp.lib)
    THEN Out(Failure("cannot identify image file"), <<"Image.open">>)
    ELSE LET e == OcrEngines(inp.lib) IN
         Out(IF e.raised THEN Failure("easyocr raised")
             ELSE [Success({"text", "metadata"}) EXCEPT
                      !.text = e.text, !.method = e.method],
             <<"Image.open">> \o e.calls)

----------------------------------------------------------------------------
\* The handlers that answer in one step.

Idle(r) == proc = "serving" /\ req[r].st = "idle"

Serve(r, route, inp, out) ==
    /\ req' = [req EXCEPT ![r] = [st |-> "done", route |-> route, in |-> inp,
                                  tmp |-> 0, ret |-> out.ret, calls |-> out.calls]]
    /\ UNCHANGED <<proc, loadStep, handle, files>>

TextInputs == { Inp(lib, "", <<>>, <<>>) : lib \in TextLib }

health(r) ==
    /\ Idle(r)
    /\ Serve(r, "/health", Inp("", "", <<>>, <<>>), Out(Success({"status"}), <<>>))

ner(r) == Idle(r) /\ \E inp \in TextInputs : Serve(r, "/ner", inp, ner_out(inp))

sentiment(r) ==
    Idle(r) /\ \E inp \in TextInputs : Serve(r, "/sentiment", inp, sentiment_out(inp))

summarize(r) ==
    /\ Idle(r)
    /\ \E lib \in TextLib, type \in Types :
         LET inp == Inp(lib, type, <<>>, <<>>) IN
         Serve(r, "/summarize", inp, summarize_out(inp))

intent(r) == Idle(r) /\ \E inp \in TextInputs : Serve(r, "/intent", inp, intent_out(inp))

keywords(r) ==
    Idle(r) /\ \E inp \in TextInputs : Serve(r, "/keywords", inp, keywords_out(inp))

coref(r) == Idle(r) /\ \E inp \in TextInputs : Serve(r, "/coref", inp, coref_out(inp))

paraphrase(r) ==
    Idle(r) /\ \E inp \in TextInputs : Serve(r, "/paraphrase", inp, paraphrase_out(inp))

EntLists == UNION { [1..n -> KbIds] : n \in 0..MaxEnts }

entity_linking(r) ==
    /\ Idle(r)
    /\ \E lib \in TextLib, ents \in EntLists :
         /\ lib = "raise" => ents = <<>>
         /\ LET inp == Inp(lib, "", ents, <<>>) IN
            Serve(r, "/entity-linking", inp, entity_linking_out(inp))

embed(r) == Idle(r) /\ \E inp \in TextInputs : Serve(r, "/embed", inp, embed_out(inp))

extract_pdf(r) ==
    Idle(r) /\ \E inp \in TextInputs : Serve(r, "/pdf", inp, extract_pdf_out(inp))

ocr_image(r) ==
    /\ Idle(r)
    /\ \E img \in Images :
         LET inp == Inp(img, "", <<>>, <<>>) IN Serve(r, "/ocr", inp, ocr_image_out(inp))

image_embed(r) ==
    Idle(r) /\ \E inp \in TextInputs : Serve(r, "/image-embed", inp, image_embed_out(inp))

----------------------------------------------------------------------------
\* Temporary files. files[p] is 0 when path p does not exist, the id of the
\* request whose payload it holds, or Orphan for a file left by a request
\* that has been answered.

Orphan == 0 - 1

\* FreshPaths for a fixed file name: any path, taken or not.
FreshPaths_Any == Paths

\* tempfile.NamedTemporaryFile(delete=False, ...): a name no file has yet.
FreshPaths == { p \in Paths : files[p] = 0 }

\* What a library call reading path p gets.
ReadFile(p) ==
    IF files[p] = 0 THEN "missing"
    ELSE IF files[p] = Orphan THEN "stale"
    ELSE req[files[p]].in.lib

StageOut(ret, calls, removed) == [ret |-> ret, calls |-> calls, removed |-> removed]

\* with NamedTemporaryFile(...) as tmp: tmp.write(file_bytes); tmp_path = tmp.name
Stage(r, route, inp) ==
    \E p \in FreshPaths :
      /\ files' = [files EXCEPT ![p] = r]
      /\ req' = [req EXCEPT ![r] = [@ EXCEPT !.st = "staged", !.route = route,
                                              !.in = inp, !.tmp = p]]
      /\ UNCHANGED <<proc, loadStep, handle>>

\* The rest of a staging handler: the library calls, os.remove on the path
\* that reaches it, and the return.
Finish(r, out) ==
    /\ req' = [req EXCEPT ![r] = [@ EXCEPT !.st = "done", !.ret = out.ret,
                                          !.calls = out.calls]]
    /\ files' = IF out.removed THEN [files EXCEPT ![req[r].tmp] = 0] ELSE files
    /\ UNCHANGED <<proc, loadStep, handle>>

Staged(r, route) ==
    proc = "serving" /\ req[r].st = "staged" /\ req[r].route = route

Audio == {"ok", "nolang", "bad"}

\* model = whisper.load_model("base"); result = model.transcribe(tmp_path);
\* os.remove(tmp_path); return {...}      -- all inside one try
\* The text field of the result stands for metadata.language:
\* result.get("language", "en").
transcribe_out(inp, data) ==
    IF inp.type = "noload"
    THEN StageOut(Failure("whisper.load_model raised"), <<"whisper.load_model">>, FALSE)
    ELSE IF data \notin {"ok", "nolang"}
    THEN StageOut(Failure("transcribe raised"),
                  <<"whisper.load_model", "transcribe">>, FALSE)
    ELSE StageOut([Success({"text", "metadata"}) EXCEPT
                      !.text = IF data = "nolang" THEN "en" ELSE "reported"],
                  <<"whisper.load_model", "transcribe">>, TRUE)

transcribe_audio(r) ==
    /\ Idle(r)
    /\ \E lib \in Audio, load \in {"load", "noload"} :
         \* a payload that is never read is left at "ok"
         /\ load = "noload" => lib = "ok"
         /\ Stage(r, "/transcribe", Inp(lib, load, <<>>, <<>>))

transcribe_finish(r) ==
    /\ Staged(r, "/transcribe")
    /\ Finish(r, transcribe_out(req[r].in, ReadFile(req[r].tmp)))

\* File names as strings of characters.
FileNames ==
    { <<"T", ".", "C", "S", "V">>, <<"s", ".", "x", "l", "s">>,
      <<"s", ".", "x", "l", "s", "x">>, <<"n", ".", "t", "x", "t">>,
      <<".", "c", "s", "v">> }

DefaultName == <<"t", "a", "b", "l", "e", ".", "c", "s", "v">>

\* The x-file-name header: <<>> when the request has none.
Headers == { <<>> } \cup { <<n>> : n \in FileNames }

\* request.headers.get("x-file-name", "table.csv")
HeaderGet(hdr) == IF hdr = <<>> THEN DefaultName ELSE hdr[1]

\* str.rfind: the last index of c in s, 0 when there is none.
RFind(s, c) ==
    LET at == { i \in 1..Len(s) : s[i] = c } IN
    IF at = {} THEN 0 ELSE CHOOSE i \in at : \A j \in at : j <= i

\* os.path.splitext(p)[-1]: from the last dot of the last path component,
\* unless only dots precede it there.
SplitExt(p) ==
    LET sep == RFind(p, "/")
        dot == RFind(p, ".")
    IN  IF dot > sep /\ \E i \in (sep + 1)..(dot - 1) : p[i] # "."
        THEN SubSeq(p, dot, Len(p))
        ELSE <<>>

LowerChar(c) ==
    CASE c = "C" -> "c" [] c = "S" -> "s" [] c = "V" -> "v" [] c = "T" -> "t"
      [] c = "X" -> "x" [] c = "L" -> "l" [] OTHER -> c

\* str.lower
Lower(s) == [i \in 1..Len(s) |-> LowerChar(s[i])]

\* ext = os.path.splitext(file_name)[-1].lower()
TableExt(hdr) == Lower(SplitExt(HeaderGet(hdr)))

\* ParserFor with the final else reading the file as CSV instead of raising.
ParserFor_NoElse(ext) ==
    IF ext \in { <<".", "x", "l", "s">>, <<".", "x", "l", "s", "x">> }
    THEN "read_excel"
    ELSE "read_csv"

\* if ext == ".csv" ... elif ext in [".xls", ".xlsx"] ... else raise ValueError
ParserFor(ext) ==
    IF ext = <<".", "c", "s", "v">> THEN "read_csv"
    ELSE IF ext \in { <<".", "x", "l", "s">>, <<".", "x", "l", "s", "x">> }
    THEN "read_excel"
    ELSE "none"

parse_table_out(inp, data) ==
    LET parser == ParserFor(TableExt(inp.hdr)) IN
    IF parser = "none"
    THEN StageOut(Failure("Unsupported table file type"), <<>>, FALSE)
    ELSE IF data # "ok"
    THEN StageOut(Failure("parser raised"), <<parser>>, FALSE)
    ELSE StageOut(Success({"text", "metadata"}), <<parser>>, TRUE)

parse_table(r) ==
    /\ Idle(r)
    /\ \E lib \in {"ok", "bad"}, hdr \in Headers :
         /\ ParserFor(TableExt(hdr)) = "none" => lib = "ok"
         /\ Stage(r, "/table", Inp(lib, "", <<>>, hdr))

parse_table_finish(r) ==
    /\ Staged(r, "/table")
    /\ Finish(r, parse_table_out(req[r].in, ReadFile(req[r].tmp)))

\* speech, sample_rate = sf.read(tmp_path); os.remove(tmp_path); then the
\* processor and the model, which may raise after the file is gone.
audio_embed_out(inp, data) ==
    IF data # "ok"
    THEN StageOut(Failure("sf.read raised"), <<"sf.read">>, FALSE)
    ELSE IF inp.type = "modelraise"
    THEN StageOut(Failure("wav2vec2 raised"), <<"sf.read", "wav2vec2">>, TRUE)
    ELSE StageOut(Success({"embedding"}), <<"sf.read", "wav2vec2">>, TRUE)

\* if wav2vec2_model is None or wav2vec2_processor is None: return {...}, 500
audio_embed(r) ==
    /\ Idle(r)
    /\ \E lib \in {"ok", "bad"}, m \in {"", "modelraise"} :
         LET inp == Inp(lib, m, <<>>, <<>>) IN
         /\ lib = "bad" => m = ""
         /\ \/ /\ handle["wav2vec2"] = "none"
               /\ Serve(r, "/audio-embed", inp,
                        Out(Failure("Wav2Vec2 model not loaded"), <<>>))
            \/ /\ handle["wav2vec2"] # "none"
               /\ Stage(r, "/audio-embed", inp)

audio_embed_finish(r) ==
    /\ Staged(r, "/audio-embed")
    /\ Finish(r, audio_embed_out(req[r].in, ReadFile(req[r].tmp)))

\* The response has been sent: the slot takes the next request. A file the
\* handler left behind stays on disk.
Respond(r) ==
    /\ req[r].st = "done"
    /\ req' = [req EXCEPT ![r] = IdleReq]
    /\ files' = [p \in Paths |-> IF files[p] = r THEN Orphan ELSE files[p]]
    /\ UNCHANGED <<proc, loadStep, handle>>

----------------------------------------------------------------------------
Startup ==
    \/ LoadUnguarded
    \/ LoadSpacy
    \/ LoadGuarded

Staging(r) ==
    \/ transcribe_audio(r)
    \/ transcribe_finish(r)
    \/ parse_table(r)
    \/ parse_table_finish(r)
    \/ audio_embed(r)
    \/ audio_embed_finish(r)

OneStep(r) ==
    \/ health(r)
    \/ ner(r)
    \/ sentiment(r)
    \/ summarize(r)
    \/ intent(r)
    \/ keywords(r)
    \/ coref(r)
    \/ paraphrase(r)
    \/ entity_linking(r)
    \/ embed(r)
    \/ extract_pdf(r)
    \/ ocr_image(r)
    \/ image_embed(r)

\* The service from import on, answering one request after another.
Next ==
    \/ Startup
    \/ OneStep(1)
    \/ Staging(1)
    \/ Respond(1)

Spec == Init /\ [][Next]_vars

\* The serving states start-up can end in, as far as the staging handlers
\* read them: only /audio-embed looks at a handle.
InitServing ==
    /\ proc = "serving"
    /\ loadStep = Len(LoadOrder) + 1
    /\ handle \in { h \in [Capabilities -> {"loaded", "none"}] :
                      \A c \in Capabilities \ {"wav2vec2"} : h[c] = "loaded" }
    /\ req = [r \in ReqIds |-> IdleReq]
    /\ files = [p \in Paths |-> 0]

\* The handlers that stage files, MaxReq requests arriving in any order and
\* interleaved in any way.
NextStaging == \E r \in ReqIds : Staging(r)

SpecStaging == InitServing /\ [][NextStaging]_vars

----------------------------------------------------------------------------
\* Properties.

Done(r) == req[r].st = "done"

IsError(ret) == "error" \in ret.fields

StagingRoutes == {"/transcribe", "/table", "/audio-embed"}

TextRoutes ==
    {"/ner", "/sentiment", "/summarize", "/intent", "/keywords", "/coref",
     "/paraphrase", "/entity-linking"}

\* C1: once a handler that staged a temporary file has returned, the file no
\* longer exists, whether it returned a success or an error.
C1_TempFileDeleted ==
    \A r \in ReqIds :
      (Done(r) /\ req[r].route \in StagingRoutes /\ req[r].tmp # 0) =>
        files[req[r].tmp] = 0

\* C2: every error answer is the object {"error": message} with a status
\* outside 200..299.
C2_ErrorsCarryFailureStatus ==
    \A r \in ReqIds :
      (Done(r) /\ IsError(req[r].ret)) =>
        LET h == HttpResponse(req[r].ret) IN
        /\ h.status \notin 200..299
        /\ h.body = "object"
        /\ h.fields = {"error"}

\* The endpoints served by each module-level handle.
EndpointsOf(c) ==
    CASE c = "ner_pipeline"        -> {"/ner"}
      [] c = "sentiment_pipeline"  -> {"/sentiment"}
      [] c = "summarizer"          -> {"/summarize"}
      [] c = "paraphrase_pipeline" -> {"/paraphrase"}
      [] c = "intent_pipeline"     -> {"/intent"}
      [] c = "nlp_spacy"           -> {"/coref", "/entity-linking"}
      [] c = "kw_extractor"        -> {"/keywords"}
      [] c = "embedder"            -> {"/embed"}
      [] c = "clip"                -> {"/image-embed"}
      [] c = "wav2vec2"            -> {"/audio-embed"}

\* The handle's initialisation raised at start-up.
LoadFailed(c) == handle[c] \in {"failed", "none", "blank"}

NotLoadedMessages ==
    {"Embedding model not loaded", "CLIP model not loaded", "Wav2Vec2 model not loaded",
     "NER model not loaded", "Sentiment model not loaded", "Summarizer not loaded",
     "Paraphrase model not loaded", "Intent model not loaded", "Parser not loaded",
     "Keyword extractor not loaded"}

\* C3: a request to the endpoint of any capability whose handle failed to
\* load is answered with an error that names the capability as not loaded,
\* and the handle is not invoked.
C3_UnloadedFailsFast ==
    \A r \in ReqIds : \A c \in Capabilities :
      (Done(r) /\ LoadFailed(c) /\ req[r].route \in EndpointsOf(c)) =>
        /\ IsError(req[r].ret)
        /\ req[r].ret.msg \in NotLoadedMessages
        /\ req[r].calls = <<>>

\* C4: whichever handles fail to initialise, start-up goes on: the process
\* does not stop, and once start-up is over every handle has been attempted
\* and the service is serving.
C4_StartupIsolatesFailures ==
    /\ proc # "crashed"
    /\ proc = "serving" => \A c \in Capabilities : handle[c] # "unset"

InitCalls == {"whisper.load_model", "easyocr.Reader"}

\* C5: no request handler initialises a model or an engine.
C5_NoInitInHandlers ==
    \A r \in ReqIds : \A i \in 1..Len(req[r].calls) : req[r].calls[i] \notin InitCalls

\* C6: on /ocr pytesseract is attempted before easyocr, easyocr is invoked
\* only after pytesseract has raised, a primary failure with a working
\* secondary is a success reporting "easyocr", and every success names the
\* engine whose text it returns.
C6_OcrFallback ==
    \A r \in ReqIds :
      (Done(r) /\ req[r].route = "/ocr") =>
        LET c   == req[r].calls
            img == req[r].in.lib
            ret == req[r].ret
            Pos(x) == { i \in 1..Len(c) : c[i] = x }
        IN  /\ ~OpenRaises(img) => Pos("pytesseract") # {}
            /\ \A i \in Pos("easyocr.Reader") \cup Pos("readtext") :
                 \E j \in Pos("pytesseract") : j < i
            /\ Pos("easyocr.Reader") # {} => TessRaises(img)
            /\ (~OpenRaises(img) /\ TessRaises(img) /\ ~ReaderRaises(img)
                  /\ ~ReadtextRaises(img))
                 => (ret.kind = "dict" /\ ret.method = "easyocr")
            /\ ret.kind = "dict" =>
                 /\ ret.method = ret.text
                 /\ ret.method = IF TessRaises(img) THEN "easyocr" ELSE "pytesseract"

\* A fallback: pytesseract raised and the answer comes from easyocr.
C6_Witness ==
    \E r \in ReqIds :
      /\ Done(r) /\ req[r].route = "/ocr"
      /\ req[r].calls = <<"Image.open", "pytesseract", "easyocr.Reader", "readtext">>
      /\ req[r].ret.kind = "dict" /\ req[r].ret.method = "easyocr"

\* C7: on /table the lower-cased extension of x-file-name picks the parser:
\* .csv the CSV parser, .xls and .xlsx the spreadsheet parser, anything else no
\* parser and an error envelope returned by the handler.
C7_TableDispatch ==
    \A r \in ReqIds :
      (Done(r) /\ req[r].route = "/table") =>
        LET ext == TableExt(req[r].in.hdr)
            hdr == req[r].in.hdr
            ret == req[r].ret
        IN  /\ ext = <<".", "c", "s", "v">> => req[r].calls = <<"read_csv">>
            /\ ext \in { <<".", "x", "l", "s">>, <<".", "x", "l", "s", "x">> }
                 => req[r].calls = <<"read_excel">>
            /\ ext \notin { <<".", "c", "s", "v">>, <<".", "x", "l", "s">>,
                            <<".", "x", "l", "s", "x">> }
                 => /\ req[r].calls = <<>>
                    /\ ret.kind = "tuple" /\ ret.fields = {"error"}
            /\ ret.kind # "raised"
            /\ hdr = << <<"T", ".", "C", "S", "V">> >> => req[r].calls = <<"read_csv">>
            /\ hdr = <<>> => req[r].calls = <<"read_csv">>
            /\ hdr = << <<"n", ".", "t", "x", "t">> >> => req[r].calls = <<>>

\* A .txt file: no parser, an error envelope.
C7_Witness ==
    \E r \in ReqIds :
      /\ Done(r) /\ req[r].route = "/table"
      /\ req[r].in.hdr = << <<"n", ".", "t", "x", "t">> >>
      /\ req[r].calls = <<>>
      /\ req[r].ret.msg = "Unsupported table file type"

\* The success fields of each text endpoint.
SuccessFields(route) ==
    CASE route = "/ner"            -> {"entities"}
      [] route = "/sentiment"      -> {"label", "score"}
      [] route = "/summarize"      -> {"summary"}
      [] route = "/intent"         -> {"intent", "confidence"}
      [] route = "/keywords"       -> {"keywords"}
      [] route = "/coref"          -> {"resolved_text", "clusters"}
      [] route = "/paraphrase"     -> {"paraphrased"}
      [] route = "/entity-linking" -> {"entities"}

\* C8: a text handler ends in one of two ways: it returns its endpoint's
\* success payload, with no error field, or it returns an error envelope with
\* the error field alone; no exception leaves it.
C8_TextOutcomes ==
    \A r \in ReqIds :
      (Done(r) /\ req[r].route \in TextRoutes) =>
        \/ /\ req[r].ret.kind = "dict"
           /\ req[r].ret.fields = SuccessFields(req[r].route)
           /\ "error" \notin req[r].ret.fields
        \/ /\ req[r].ret.kind = "tuple"
           /\ req[r].ret.fields = {"error"}

\* An exception raised inside a text handler after the library call, caught.
C8_Witness ==
    \E r \in ReqIds :
      /\ Done(r) /\ req[r].route = "/entity-linking"
      /\ req[r].in.lib = "ok"
      /\ req[r].ret.kind = "tuple" /\ req[r].ret.fields = {"error"}

\* What a staging handler answers to a request that is alone on the server.
Alone(route, inp) ==
    CASE route = "/transcribe"  -> transcribe_out(inp, inp.lib)
      [] route = "/table"       -> parse_table_out(inp, inp.lib)
      [] route = "/audio-embed" -> audio_embed_out(inp, inp.lib)

\* C9: a step of one request leaves the process serving, the handles as they
\* are and the staged file of every other request in place, and a request
\* is answered as it would be were it alone, whatever the others did.
C9_RequestsIsolated ==
    [][ /\ proc' = "serving"
        /\ handle' = handle
        /\ \A r \in ReqIds : \A p \in Paths :
             (files[p] = r /\ req'[r] = req[r]) => files'[p] = r
        /\ \A r \in ReqIds :
             (req[r].st = "staged" /\ req'[r].st = "done") =>
               LET alone == Alone(req[r].route, req[r].in) IN
               /\ req'[r].ret = alone.ret
               /\ req'[r].calls = alone.calls
               /\ (files'[req[r].tmp] = 0) = alone.removed
      ]_vars

\* One request has failed and left its file; another is answered with a
\* success.
C9_Witness ==
    \E r1, r2 \in ReqIds :
      /\ r1 # r2
      /\ Done(r1) /\ IsError(req[r1].ret)
      /\ req[r1].tmp # 0 /\ files[req[r1].tmp] = r1
      /\ Done(r2) /\ req[r2].ret.kind = "dict"
      /\ req[r2].tmp # 0 /\ files[req[r2].tmp] = 0

\* C10: /entity-linking answers with one entry per entity the parser found,
\* in document order; an unlinked entity has entity_id "" and confidence 1.0,
\* a linked one its entity_id and a number, and the answer is a success.
C10_EntityLinking ==
    \A r \in ReqIds :
      (Done(r) /\ req[r].route = "/entity-linking" /\ req[r].in.lib = "ok") =>
        LET ents == DocEnts(req[r].in)
            out  == req[r].ret.entities
        IN  /\ req[r].ret.kind = "dict"
            /\ Len(out) = Len(ents)
            /\ \A i \in 1..Len(ents) :
                 /\ out[i].mention = i
                 /\ out[i].entity_id = ents[i]
                 /\ ents[i] = <<>> => out[i].confidence = 1
                 /\ out[i].confidence \in Nat
====
